---- MODULE Spec2Model ----
(***************************************************************************)
(* AI Content Shield model service (src/model-service).                    *)
(*                                                                         *)
(* Probabilities are exact rationals [n, d] counted in hundredths, so 0.60 *)
(* is [n |-> 60, d |-> 1] and a mean of three scores keeps its thirds.     *)
(* Every endpoint handler is an `async def` without an await, so a handler *)
(* runs to completion before the next one starts: one action per handler.  *)
(***************************************************************************)
EXTENDS Integers, Sequences, FiniteSets, TLC

VARIABLES
    text_detector,   \* app.py:103  None or the loaded TextDetector
    image_detector,  \* app.py:104  None or the loaded ImageDetector
    explainer,       \* app.py:105  None or the FeatherlessExplainer
    environ,         \* os.environ as read by startup()
    phase,           \* "init" | "ready" | "failed" : the startup hook
    req,             \* the request being served (NoReq when idle)
    resp,            \* its response (NoResp when idle)
    trace,           \* detector / explainer calls made while serving req
    call             \* a direct call of a module-level helper (NoCall when idle)

vars == <<text_detector, image_detector, explainer, environ, phase, req, resp, trace, call>>

-----------------------------------------------------------------------------
(* Bounds *)

MaxItems == 2
MaxLabels == 3

(* Program constants, in hundredths / tenths *)
ScoreMin == 0
ScoreMax == 100
HighCut == 80
MediumCut == 60
TextWeight == 6
ImageWeight == 4
WeightUnit == 10
FallbackIndex == 1

None == "None"

-----------------------------------------------------------------------------
(* Rationals: Python floats, without rounding *)

RECURSIVE Gcd(_, _)
Gcd(a, b) == IF b = 0 THEN a ELSE Gcd(b, a % b)

Abs(x) == IF x < 0 THEN -x ELSE x

Rat(n, d) ==
    LET g == Gcd(Abs(n), d)
    IN  [n |-> n \div g, d |-> d \div g]

Less(x, y) == x.n * y.d < y.n * x.d
Geq(x, y) == ~Less(x, y)

\* Python's min / max of two arguments: the first one wins a tie.
PyMin(a, b) == IF Less(b, a) THEN b ELSE a
PyMax(a, b) == IF Less(a, b) THEN b ELSE a

\* statistics.mean of a non-empty list of rationals
RECURSIVE SumNum(_, _)
SumNum(s, den) ==
    IF s = <<>> THEN 0 ELSE Head(s).n * (den \div Head(s).d) + SumNum(Tail(s), den)

RECURSIVE ProdDen(_)
ProdDen(s) == IF s = <<>> THEN 1 ELSE Head(s).d * ProdDen(Tail(s))

Mean(s) == LET den == ProdDen(s) IN Rat(SumNum(s, den), den * Len(s))

\* a * x + b * y with the weights a, b given in tenths
Weighted(a, x, b, y) ==
    Rat(a * x.n * y.d + b * y.n * x.d, WeightUnit * x.d * y.d)

-----------------------------------------------------------------------------
(* Helpers, app.py:112-170 *)

clamp_score_identity(score) == score

clamp_score(score) == PyMax(Rat(ScoreMin, 1), PyMin(Rat(ScoreMax, 1), score))

tier_from_score_strict(score) ==
    IF Less(Rat(HighCut, 1), score) THEN "high"
    ELSE IF Less(Rat(MediumCut, 1), score) THEN "medium"
    ELSE "low"

tier_from_score(score) ==
    IF Geq(score, Rat(HighCut, 1)) THEN "high"
    ELSE IF Geq(score, Rat(MediumCut, 1)) THEN "medium"
    ELSE "low"

summarize_overall_swapped(text_scores, image_scores) ==
    IF text_scores # <<>> /\ image_scores # <<>>
    THEN clamp_score(Weighted(ImageWeight, Mean(text_scores), TextWeight, Mean(image_scores)))
    ELSE IF text_scores # <<>> THEN clamp_score(Mean(text_scores))
    ELSE IF image_scores # <<>> THEN clamp_score(Mean(image_scores))
    ELSE Rat(0, 1)

\* sum(scores)
Sum(s) == Rat(SumNum(s, ProdDen(s)), ProdDen(s))

summarize_overall_sum(text_scores, image_scores) ==
    IF text_scores # <<>> /\ image_scores # <<>>
    THEN clamp_score(Weighted(TextWeight, Sum(text_scores), ImageWeight, Sum(image_scores)))
    ELSE IF text_scores # <<>> THEN clamp_score(Sum(text_scores))
    ELSE IF image_scores # <<>> THEN clamp_score(Sum(image_scores))
    ELSE Rat(0, 1)

summarize_overall(text_scores, image_scores) ==
    IF text_scores # <<>> /\ image_scores # <<>>
    THEN clamp_score(Weighted(TextWeight, Mean(text_scores), ImageWeight, Mean(image_scores)))
    ELSE IF text_scores # <<>> THEN clamp_score(Mean(text_scores))
    ELSE IF image_scores # <<>> THEN clamp_score(Mean(image_scores))
    ELSE Rat(0, 1)

TextMedium == "Moderate AI-like writing signal detected."
TextHigh == "Strong AI-like writing signal detected due to highly uniform or templated phrasing."
ImageMedium == "Moderate synthetic-image signal detected."
ImageHigh == "Strong synthetic-image signal detected based on the classifier's visual pattern match."

explanation_fallback(kind, tier) ==
    IF tier = "low" THEN None
    ELSE IF kind = "text" THEN (IF tier = "medium" THEN TextMedium ELSE TextHigh)
    ELSE (IF tier = "medium" THEN ImageMedium ELSE ImageHigh)

-----------------------------------------------------------------------------
(* Detectors, model_loader.py *)

\* The loaded detectors, named by the model each constructor loads by default.
TextDetectorObj == "TextDetector(openai-community/roberta-base-openai-detector)"
ImageDetectorObj == "ImageDetector(umm-maybe/AI-image-detector)"

Raise(exc) == [ok |-> FALSE, exc |-> exc, value |-> Rat(0, 1), type |-> "exception"]
Return(type, value) == [ok |-> TRUE, exc |-> "", value |-> value, type |-> type]

\* predict(text) = predict_batch([text])[0]: one float of the softmax row
TextDetector_predict(chunk) == Return("float", Rat(chunk.prob, 1))

\* value["ai_prob"]: a float is not subscriptable
Subscript(r, key) ==
    IF ~r.ok THEN r
    ELSE IF r.type = "dict" THEN Return("float", r.value)
    ELSE Raise("TypeError")

ImageDetector_decode_image(item) ==
    IF item.image = "" THEN Raise("ValueError")
    ELSE IF item.image = "undecodable" THEN Raise("ValueError")
    ELSE Return("image", Rat(0, 1))

ImageDetector_predict_neutral(item) ==
    IF ~ImageDetector_decode_image(item).ok THEN Return("float", Rat(50, 1))
    ELSE Return("float", Rat(item.prob, 1))

ImageDetector_predict(item) ==
    IF ~ImageDetector_decode_image(item).ok THEN ImageDetector_decode_image(item)
    ELSE Return("float", Rat(item.prob, 1))

-----------------------------------------------------------------------------
(* Label resolution, model_loader.py:27-50. A string is its sequence of characters. *)

UpperToLower == ("A" :> "a") @@ ("B" :> "b") @@ ("E" :> "e") @@ ("F" :> "f") @@ ("I" :> "i") @@ ("K" :> "k") @@ ("L" :> "l") @@ ("R" :> "r")

Lower(c) == IF c \in DOMAIN UpperToLower THEN UpperToLower[c] ELSE c

RECURSIVE LStrip(_)
LStrip(w) == IF w # <<>> /\ Head(w) = " " THEN LStrip(Tail(w)) ELSE w

RECURSIVE RStrip(_)
RStrip(w) == IF w # <<>> /\ w[Len(w)] = " " THEN RStrip(SubSeq(w, 1, Len(w) - 1)) ELSE w

\* label.strip().lower().replace("_", " ")
normalize_label(label) ==
    LET stripped == RStrip(LStrip(label))
    IN  [i \in 1..Len(stripped) |->
            IF Lower(stripped[i]) = "_" THEN " " ELSE Lower(stripped[i])]

\* term in label
Contains(label, term) ==
    \E i \in 1..(Len(label) - Len(term) + 1) : SubSeq(label, i, i + Len(term) - 1) = term

\* any(term in label for term in terms)
AnyTermIn(label, terms) == \E k \in 1..Len(terms) : Contains(label, terms[k])

TextPositiveTerms == <<<<"a", "i">>, <<"f", "a", "k", "e">>, <<"g", "e", "n", "e", "r", "a", "t", "e", "d">>, <<"s", "y", "n", "t", "h", "e", "t", "i", "c">>, <<"m", "a", "c", "h", "i", "n", "e">>>>
ImagePositiveTerms == <<<<"a", "i">>, <<"f", "a", "k", "e">>, <<"g", "e", "n", "e", "r", "a", "t", "e", "d">>, <<"s", "y", "n", "t", "h", "e", "t", "i", "c">>, <<"a", "r", "t", "i", "f", "i", "c", "i", "a", "l">>>>
RealTerms == <<<<"r", "e", "a", "l">>, <<"h", "u", "m", "a", "n">>, <<"n", "a", "t", "u", "r", "a", "l">>, <<"a", "u", "t", "h", "e", "n", "t", "i", "c">>, <<"o", "r", "g", "a", "n", "i", "c">>>>

\* for idx, label in normalized.items(): the first entry from position i on
\* whose label holds one of the terms (0: none)
RECURSIVE FirstWith(_, _, _)
FirstWith(normalized, terms, i) ==
    IF i > Len(normalized) THEN 0
    ELSE IF AnyTermIn(normalized[i].v, terms) THEN i
    ELSE FirstWith(normalized, terms, i + 1)

\* [i for i in normalized.keys() if i != idx][0]
RECURSIVE OtherIndex(_, _, _)
OtherIndex(normalized, idx, i) ==
    IF normalized[i].k # idx THEN normalized[i].k ELSE OtherIndex(normalized, idx, i + 1)

find_ai_label_index_real_itself(id2label, positive_terms, fallback_index) ==
    IF id2label = <<>> THEN fallback_index
    ELSE LET normalized == [i \in 1..Len(id2label) |->
                               [k |-> id2label[i].k, v |-> normalize_label(id2label[i].v)]]
             p == FirstWith(normalized, positive_terms, 1)
             r == FirstWith(normalized, RealTerms, 1)
         IN  IF p # 0 THEN normalized[p].k
             ELSE IF Len(normalized) = 2 /\ r # 0 THEN normalized[r].k
             ELSE fallback_index

find_ai_label_index(id2label, positive_terms, fallback_index) ==
    IF id2label = <<>> THEN fallback_index
    ELSE LET normalized == [i \in 1..Len(id2label) |->
                               [k |-> id2label[i].k, v |-> normalize_label(id2label[i].v)]]
             p == FirstWith(normalized, positive_terms, 1)
             r == FirstWith(normalized, RealTerms, 1)
         IN  IF p # 0 THEN normalized[p].k
             ELSE IF Len(normalized) = 2 /\ r # 0 THEN OtherIndex(normalized, normalized[r].k, 1)
             ELSE fallback_index

\* Class labels a checkpoint's config can carry.
Labels == {<<"A", "I">>,
           <<"R", "e", "a", "l">>,
           <<"h", "u", "m", "a", "n">>,
           <<"F", "A", "K", "E">>,
           <<"L", "A", "B", "E", "L", "_", "0">>,
           <<" ", "n", "o", "t", "_", "a", "i", " ">>}

KeyOrders(n) == {f \in [1..n -> 0..(n - 1)] : \A i, j \in 1..n : f[i] = f[j] => i = j}

\* id2label of a checkpoint: n labels keyed 0..n-1, in the order the mapping lists them.
Id2Labels ==
    UNION {{[i \in 1..n |-> [k |-> keys[i], v |-> labels[i]]] :
                keys \in KeyOrders(n), labels \in [1..n -> Labels]} : n \in 0..MaxLabels}

-----------------------------------------------------------------------------
(* Explanation client, explanation_client.py *)

RemoteText == "remote explanation"

\* What the chat-completion call does for one item.
RemoteReplies == {"content", "null_content", "api_error"}

\* response.choices[0].message.content.strip()
FeatherlessExplainer_explain(reply) ==
    IF reply = "api_error" THEN Raise("APIError")
    ELSE IF reply = "null_content" THEN Raise("AttributeError")
    ELSE Return("str", RemoteText)

\* [value |-> the explanation, called |-> whether the remote call was made]
maybe_explain_no_fallback(kind, reply, tier) ==
    IF tier = "low" THEN [value |-> None, called |-> FALSE]
    ELSE IF explainer = None THEN [value |-> explanation_fallback(kind, tier), called |-> FALSE]
    ELSE [value |-> IF FeatherlessExplainer_explain(reply).ok
                    THEN FeatherlessExplainer_explain(reply).value
                    ELSE None,
          called |-> TRUE]

maybe_explain_always(kind, reply, tier) ==
    IF explainer = None THEN [value |-> explanation_fallback(kind, tier), called |-> FALSE]
    ELSE [value |-> IF FeatherlessExplainer_explain(reply).ok
                    THEN FeatherlessExplainer_explain(reply).value
                    ELSE explanation_fallback(kind, tier),
          called |-> TRUE]

maybe_explain(kind, reply, tier) ==
    IF tier = "low" THEN [value |-> None, called |-> FALSE]
    ELSE IF explainer = None THEN [value |-> explanation_fallback(kind, tier), called |-> FALSE]
    ELSE [value |-> IF FeatherlessExplainer_explain(reply).ok
                    THEN FeatherlessExplainer_explain(reply).value
                    ELSE explanation_fallback(kind, tier),
          called |-> TRUE]

maybe_explain_text(reply, tier) == maybe_explain("text", reply, tier)
maybe_explain_image(reply, tier) == maybe_explain("image", reply, tier)

-----------------------------------------------------------------------------
(* Requests and responses *)

Ev(op, kind, idx) == [op |-> op, kind |-> kind, idx |-> idx]

NoReq == [endpoint |-> "idle", chunks |-> <<>>, images |-> <<>>]
NoResp == [status |-> 0]
NoCall == [fn |-> "idle"]

Ok(score, details) == [status |-> 200, score |-> score, details |-> details]
HTTPException(status, detail) == [status |-> status, detail |-> detail]
\* an exception that leaves the handler: the framework answers 500
ServerError(exc) == [status |-> 500, detail |-> exc]

Out(r, tr) == [resp |-> r, trace |-> tr]

Flagged(tier) == tier \in {"medium", "high"}

RECURSIVE flagged_count_high_only(_)
flagged_count_high_only(results) ==
    IF results = <<>> THEN 0
    ELSE (IF Head(results).tier = "high" THEN 1 ELSE 0) + flagged_count_high_only(Tail(results))

RECURSIVE flagged_count(_)
flagged_count(results) ==
    IF results = <<>> THEN 0
    ELSE (IF Flagged(Head(results).tier) THEN 1 ELSE 0) + flagged_count(Tail(results))

\* [clamp_score(text_detector.predict(c.text)["ai_prob"]) for c in chunks], from chunk i on
RECURSIVE ScoreChunks(_, _, _, _)
ScoreChunks(chunks, i, scores, tr) ==
    IF i > Len(chunks) THEN [ok |-> TRUE, exc |-> "", scores |-> scores, trace |-> tr]
    ELSE LET r == Subscript(TextDetector_predict(chunks[i]), "ai_prob")
             tr1 == Append(tr, Ev("predict", "text", i))
         IN  IF ~r.ok THEN [ok |-> FALSE, exc |-> r.exc, scores |-> scores, trace |-> tr1]
             ELSE ScoreChunks(chunks, i + 1, Append(scores, clamp_score(r.value)), tr1)

\* for chunk, score in zip(chunks, scores): results.append({...}), from chunk i on
RECURSIVE ExplainChunks(_, _, _, _, _)
ExplainChunks(chunks, scores, i, results, tr) ==
    IF i > Len(chunks) THEN [results |-> results, trace |-> tr]
    ELSE LET tier == tier_from_score(scores[i])
             e == maybe_explain_text(chunks[i].reply, tier)
         IN  ExplainChunks(chunks, scores, i + 1,
                 Append(results, [id |-> chunks[i].id, score |-> scores[i], tier |-> tier,
                                  explanation |-> e.value]),
                 IF e.called THEN Append(tr, Ev("explain", "text", i)) ELSE tr)

\* for item in images: score, tier, results.append({...}), from item i on
RECURSIVE ScoreImages(_, _, _, _, _)
ScoreImages(images, i, scores, results, tr) ==
    IF i > Len(images)
    THEN [ok |-> TRUE, exc |-> "", scores |-> scores, results |-> results, trace |-> tr]
    ELSE LET r == ImageDetector_predict(images[i])
             tr1 == Append(tr, Ev("predict", "image", i))
         IN  IF ~r.ok
             THEN [ok |-> FALSE, exc |-> r.exc, scores |-> scores, results |-> results,
                   trace |-> tr1]
             ELSE LET score == clamp_score(r.value)
                      tier == tier_from_score(score)
                      e == maybe_explain_image(images[i].reply, tier)
                  IN  ScoreImages(images, i + 1, Append(scores, score),
                          Append(results, [id |-> images[i].id, score |-> score,
                                           tier |-> tier, explanation |-> e.value]),
                          IF e.called THEN Append(tr1, Ev("explain", "image", i)) ELSE tr1)

-----------------------------------------------------------------------------
(* Endpoint handlers, app.py:227-417: the response and the calls made *)

infer_text_handler(chunk) ==
    IF text_detector = None THEN Out(HTTPException(503, "Text detector not loaded"), <<>>)
    ELSE LET s == ScoreChunks(<<chunk>>, 1, <<>>, <<>>)
         IN  IF ~s.ok THEN Out(ServerError(s.exc), s.trace)
             ELSE LET x == ExplainChunks(<<chunk>>, s.scores, 1, <<>>, s.trace)
                  IN  Out(Ok(s.scores[1], [tier |-> x.results[1].tier,
                                           explanation |-> x.results[1].explanation]),
                          x.trace)

infer_image_handler(item) ==
    IF image_detector = None THEN Out(HTTPException(503, "Image detector not loaded"), <<>>)
    ELSE LET s == ScoreImages(<<item>>, 1, <<>>, <<>>, <<>>)
         IN  IF ~s.ok THEN Out(ServerError(s.exc), s.trace)
             ELSE Out(Ok(s.scores[1], [tier |-> s.results[1].tier,
                                       explanation |-> s.results[1].explanation,
                                       image_detector_enabled |-> FALSE]),
                      s.trace)

infer_text_spans_handler_400_first(chunks) ==
    IF chunks = <<>> THEN Out(HTTPException(400, "No text chunks provided"), <<>>)
    ELSE IF text_detector = None THEN Out(HTTPException(503, "Text detector not loaded"), <<>>)
    ELSE LET s == ScoreChunks(chunks, 1, <<>>, <<>>)
         IN  IF ~s.ok THEN Out(ServerError(s.exc), s.trace)
             ELSE LET x == ExplainChunks(chunks, s.scores, 1, <<>>, s.trace)
                  IN  Out(Ok(summarize_overall(s.scores, <<>>),
                             [results |-> x.results,
                              flagged_count |-> flagged_count(x.results)]),
                          x.trace)

infer_text_spans_handler(chunks) ==
    IF text_detector = None THEN Out(HTTPException(503, "Text detector not loaded"), <<>>)
    ELSE IF chunks = <<>> THEN Out(HTTPException(400, "No text chunks provided"), <<>>)
    ELSE LET s == ScoreChunks(chunks, 1, <<>>, <<>>)
         IN  IF ~s.ok THEN Out(ServerError(s.exc), s.trace)
             ELSE LET x == ExplainChunks(chunks, s.scores, 1, <<>>, s.trace)
                  IN  Out(Ok(summarize_overall(s.scores, <<>>),
                             [results |-> x.results,
                              flagged_count |-> flagged_count(x.results)]),
                          x.trace)

infer_image_batch_handler(images) ==
    IF image_detector = None THEN Out(HTTPException(503, "Image detector not loaded"), <<>>)
    ELSE IF images = <<>> THEN Out(HTTPException(400, "No images provided"), <<>>)
    ELSE LET s == ScoreImages(images, 1, <<>>, <<>>, <<>>)
         IN  IF ~s.ok THEN Out(ServerError(s.exc), s.trace)
             ELSE Out(Ok(summarize_overall(<<>>, s.scores),
                         [results |-> s.results,
                          flagged_count |-> flagged_count(s.results),
                          image_detector_enabled |-> FALSE]),
                      s.trace)

infer_page_handler_images_first(chunks, images) ==
    IF text_detector = None \/ image_detector = None
    THEN Out(HTTPException(503, "Model service not fully initialized"), <<>>)
    ELSE LET m == ScoreImages(images, 1, <<>>, <<>>, <<>>)
         IN  IF ~m.ok THEN Out(ServerError(m.exc), m.trace)
             ELSE LET s == ScoreChunks(chunks, 1, <<>>, m.trace)
                  IN  IF ~s.ok THEN Out(ServerError(s.exc), s.trace)
                      ELSE LET x == ExplainChunks(chunks, s.scores, 1, <<>>, s.trace)
                               overall_score == summarize_overall(s.scores, m.scores)
                           IN  Out(Ok(overall_score,
                                      [text |-> [score |-> summarize_overall(s.scores, <<>>),
                                                 results |-> x.results],
                                       images |-> [score |-> summarize_overall(<<>>, m.scores),
                                                   results |-> m.results,
                                                   image_detector_enabled |-> FALSE],
                                       overall_tier |-> tier_from_score(overall_score)]),
                                   x.trace)

infer_page_handler(chunks, images) ==
    IF text_detector = None \/ image_detector = None
    THEN Out(HTTPException(503, "Model service not fully initialized"), <<>>)
    ELSE LET s == ScoreChunks(chunks, 1, <<>>, <<>>)
         IN  IF ~s.ok THEN Out(ServerError(s.exc), s.trace)
             ELSE LET x == ExplainChunks(chunks, s.scores, 1, <<>>, s.trace)
                      m == ScoreImages(images, 1, <<>>, <<>>, x.trace)
                  IN  IF ~m.ok THEN Out(ServerError(m.exc), m.trace)
                      ELSE LET overall_score == summarize_overall(s.scores, m.scores)
                           IN  Out(Ok(overall_score,
                                      [text |-> [score |-> summarize_overall(s.scores, <<>>),
                                                 results |-> x.results],
                                       images |-> [score |-> summarize_overall(<<>>, m.scores),
                                                   results |-> m.results,
                                                   image_detector_enabled |-> FALSE],
                                       overall_tier |-> tier_from_score(overall_score)]),
                                   m.trace)

-----------------------------------------------------------------------------
(* Inputs *)

\* What a detector's softmax row can hold for one input, plus one value on
\* each side of [0, 1] for a detector that is not a softmax.
RawProbs == {-10, 30, 60, 80, 110}

NoReply == "no explainer"

\* No remote endpoint is reached while explainer is None.
Replies == IF explainer = None THEN {NoReply} ELSE RemoteReplies

\* The text of a chunk / the payload of an image, with what the model and the
\* remote API answer for it.
Texts == [prob : RawProbs, reply : Replies]

Payloads ==
    [image : {"decodable"}, prob : RawProbs, reply : Replies]
    \cup [image : {"undecodable"}, prob : {0}, reply : {NoReply}]

\* The ids of a request's items: all equal, or all different.
IdPatterns == {"same", "distinct"}

ItemId(pattern, i) == IF pattern = "same" THEN "id" ELSE ToString(i)

WithChunkIds(texts, pattern) ==
    [i \in 1..Len(texts) |->
        [id |-> ItemId(pattern, i), prob |-> texts[i].prob, reply |-> texts[i].reply]]

WithImageIds(payloads, pattern) ==
    [i \in 1..Len(payloads) |->
        [id |-> ItemId(pattern, i), image |-> payloads[i].image,
         prob |-> payloads[i].prob, reply |-> payloads[i].reply]]

SeqsUpTo(S, n) == UNION {[1..k -> S] : k \in 0..n}

\* The deployments: IMAGE_MODEL_NAME, ENABLE_FEATHERLESS_EXPLANATIONS, FEATHERLESS_API_KEY
Environs ==
    { [IMAGE_MODEL_NAME |-> "", ENABLE_FEATHERLESS_EXPLANATIONS |-> "false", FEATHERLESS_API_KEY |-> ""],
      [IMAGE_MODEL_NAME |-> "", ENABLE_FEATHERLESS_EXPLANATIONS |-> "true", FEATHERLESS_API_KEY |-> "key"],
      [IMAGE_MODEL_NAME |-> "org/image-model", ENABLE_FEATHERLESS_EXPLANATIONS |-> "true", FEATHERLESS_API_KEY |-> ""] }

-----------------------------------------------------------------------------
(* The service *)

Init ==
    /\ text_detector = None
    /\ image_detector = None
    /\ explainer = None
    /\ environ \in Environs
    /\ phase = "init"
    /\ req = NoReq
    /\ resp = NoResp
    /\ trace = <<>>
    /\ call = NoCall

Idle == resp = NoResp /\ call = NoCall

\* app.py:177-202. TextDetector() and ImageDetector() load their default models
\* and raise when the model cannot be fetched; the hook then ends there, with
\* the globals as assigned so far. The handlers are plain functions of the
\* module: a client that does not run the startup hook reaches them with the
\* detectors still None.
Startup ==
    /\ phase = "init"
    /\ Idle
    /\ \E text_loads, image_loads \in BOOLEAN :
        IF ~text_loads
        THEN /\ phase' = "failed"
             /\ UNCHANGED <<text_detector, image_detector, explainer>>
        ELSE IF ~image_loads
        THEN /\ text_detector' = TextDetectorObj
             /\ phase' = "failed"
             /\ UNCHANGED <<image_detector, explainer>>
        ELSE /\ text_detector' = TextDetectorObj
             /\ image_detector' = ImageDetectorObj
             /\ explainer' = IF /\ environ.ENABLE_FEATHERLESS_EXPLANATIONS = "true"
                                /\ environ.FEATHERLESS_API_KEY # ""
                             THEN "FeatherlessExplainer" ELSE None
             /\ phase' = "ready"
    /\ UNCHANGED <<environ, req, resp, trace, call>>

Serve(r, out) ==
    /\ req' = r
    /\ resp' = out.resp
    /\ trace' = out.trace
    /\ UNCHANGED <<text_detector, image_detector, explainer, environ, phase, call>>

Request(endpoint, chunks, images) ==
    [endpoint |-> endpoint, chunks |-> chunks, images |-> images]

infer_text ==
    /\ Idle
    /\ \E text \in Texts :
        LET chunks == WithChunkIds(<<text>>, "same")
        IN  Serve(Request("/infer/text", chunks, <<>>), infer_text_handler(chunks[1]))

infer_image ==
    /\ Idle
    /\ \E payload \in Payloads :
        LET images == WithImageIds(<<payload>>, "same")
        IN  Serve(Request("/infer/image", <<>>, images), infer_image_handler(images[1]))

infer_text_spans ==
    /\ Idle
    /\ \E texts \in SeqsUpTo(Texts, MaxItems), pattern \in IdPatterns :
        LET chunks == WithChunkIds(texts, pattern)
        IN  Serve(Request("/infer/text/spans", chunks, <<>>), infer_text_spans_handler(chunks))

infer_image_batch ==
    /\ Idle
    /\ \E payloads \in SeqsUpTo(Payloads, MaxItems), pattern \in IdPatterns :
        LET images == WithImageIds(payloads, pattern)
        IN  Serve(Request("/infer/image/batch", <<>>, images), infer_image_batch_handler(images))

infer_page ==
    /\ Idle
    /\ \E nc \in 0..MaxItems :
        \E texts \in [1..nc -> Texts], payloads \in SeqsUpTo(Payloads, MaxItems - nc),
           pattern \in IdPatterns :
            LET chunks == WithChunkIds(texts, pattern)
                images == WithImageIds(payloads, pattern)
            IN  Serve(Request("/infer/page", chunks, images), infer_page_handler(chunks, images))

\* The response is sent and the handler's locals are gone.
Respond ==
    /\ resp # NoResp
    /\ req' = NoReq
    /\ resp' = NoResp
    /\ trace' = <<>>
    /\ UNCHANGED <<text_detector, image_detector, explainer, environ, phase, call>>

\* A caller applies tier_from_score to two scores a <= b of [0, 1].
call_tier_from_score ==
    /\ Idle
    /\ \E a, b \in ScoreMin..ScoreMax :
        /\ a <= b
        /\ call' = [fn |-> "tier_from_score",
                    args |-> <<Rat(a, 1), Rat(b, 1)>>,
                    result |-> <<tier_from_score(Rat(a, 1)), tier_from_score(Rat(b, 1))>>]
    /\ UNCHANGED <<text_detector, image_detector, explainer, environ, phase, req, resp, trace>>

\* The scores the endpoints hand to summarize_overall: clamped detector outputs.
ClampedScores == {clamp_score(Rat(p, 1)) : p \in RawProbs}

\* A caller applies summarize_overall to two lists of clamped scores.
call_summarize_overall ==
    /\ Idle
    /\ \E text_scores, image_scores \in SeqsUpTo(ClampedScores, MaxItems) :
        call' = [fn |-> "summarize_overall",
                 text_scores |-> text_scores,
                 image_scores |-> image_scores,
                 result |-> summarize_overall(text_scores, image_scores)]
    /\ UNCHANGED <<text_detector, image_detector, explainer, environ, phase, req, resp, trace>>

\* A caller applies maybe_explain_text / maybe_explain_image to a tier.
call_maybe_explain ==
    /\ Idle
    /\ \E kind \in {"text", "image"}, tier \in {"low", "medium", "high"}, reply \in Replies :
        LET e == IF kind = "text" THEN maybe_explain_text(reply, tier)
                 ELSE maybe_explain_image(reply, tier)
        IN  call' = [fn |-> "maybe_explain", kind |-> kind, tier |-> tier, reply |-> reply,
                     result |-> e.value, called |-> e.called]
    /\ UNCHANGED <<text_detector, image_detector, explainer, environ, phase, req, resp, trace>>

\* TextDetector.__init__ / ImageDetector.__init__ resolve the AI class of the
\* checkpoint they load, while startup runs.
call_find_ai_label_index ==
    /\ Idle
    /\ phase = "init"
    /\ \E id2label \in Id2Labels, detector \in {"text", "image"} :
        call' = [fn |-> "_find_ai_label_index", id2label |-> id2label, detector |-> detector,
                 result |-> find_ai_label_index(id2label,
                                IF detector = "text" THEN TextPositiveTerms
                                ELSE ImagePositiveTerms,
                                FallbackIndex)]
    /\ UNCHANGED <<text_detector, image_detector, explainer, environ, phase, req, resp, trace>>

\* The helper has returned.
call_returns ==
    /\ call # NoCall
    /\ call' = NoCall
    /\ UNCHANGED <<text_detector, image_detector, explainer, environ, phase, req, resp, trace>>

Next ==
    \/ Startup
    \/ infer_text
    \/ infer_image
    \/ infer_text_spans
    \/ infer_image_batch
    \/ infer_page
    \/ Respond
    \/ call_tier_from_score
    \/ call_summarize_overall
    \/ call_maybe_explain
    \/ call_find_ai_label_index
    \/ call_returns

Spec == Init /\ [][Next]_vars

-----------------------------------------------------------------------------
(* Properties *)

Served == resp.status = 200
Loaded == text_detector # None /\ image_detector # None

InUnit(x) == 0 <= x.n /\ x.n <= 100 * x.d

AllInUnit(results) == \A i \in 1..Len(results) : InUnit(results[i].score)

\* C1: every score of a successful response - the top-level score, each
\* per-item score, and the page-level text and images sub-scores - lies in
\* [0, 1], whatever the detectors returned.
C1_ScoresInUnitInterval ==
    Served =>
        /\ InUnit(resp.score)
        /\ req.endpoint \in {"/infer/text/spans", "/infer/image/batch"} =>
               AllInUnit(resp.details.results)
        /\ req.endpoint = "/infer/page" =>
               /\ InUnit(resp.details.text.score)
               /\ InUnit(resp.details.images.score)
               /\ AllInUnit(resp.details.text.results)
               /\ AllInUnit(resp.details.images.results)

\* A batch whose detector outputs lie on both sides of [0, 1] is answered.
C1_Witness ==
    /\ Served
    /\ req.endpoint = "/infer/image/batch"
    /\ \E i, j \in 1..Len(req.images) :
        /\ req.images[i].image = "decodable" /\ req.images[i].prob < 0
        /\ req.images[j].image = "decodable" /\ req.images[j].prob > 100

TierRank(tier) == CASE tier = "low" -> 0 [] tier = "medium" -> 1 [] tier = "high" -> 2

TierByCutoffs(score, tier) ==
    /\ tier \in {"low", "medium", "high"}
    /\ tier = "high" <=> score.n >= 80 * score.d
    /\ tier = "medium" <=> (60 * score.d <= score.n /\ score.n < 80 * score.d)
    /\ tier = "low" <=> score.n < 60 * score.d

\* C2: tier_from_score maps a clamped score to exactly one tier: high iff
\* score >= 0.80, medium iff 0.60 <= score < 0.80, low iff score < 0.60; a
\* larger score never gets a lower tier; 0.60 and 0.80 belong to the upper tier.
C2_TierCutoffs ==
    call.fn = "tier_from_score" =>
        /\ TierByCutoffs(call.args[1], call.result[1])
        /\ TierByCutoffs(call.args[2], call.result[2])
        /\ TierRank(call.result[1]) <= TierRank(call.result[2])

\* The two boundary values, each in its upper tier.
C2_Witness ==
    /\ call.fn = "tier_from_score"
    /\ call.args = <<Rat(60, 1), Rat(80, 1)>>
    /\ call.result = <<"medium", "high">>

RECURSIVE Total(_)
Total(scores) == IF scores = <<>> THEN 0 ELSE Head(scores).n + Total(Tail(scores))

\* C3: summarize_overall returns 0.6 * mean(text) + 0.4 * mean(image) when both
\* lists are non-empty, the mean of the non-empty list when only one is, and
\* 0.0 when both are empty; /infer/page with no chunks and no images succeeds
\* with score 0.0 and overall_tier "low".
C3_SummarizeOverall ==
    /\ call.fn = "summarize_overall" =>
        LET t == call.text_scores
            i == call.image_scores
            r == call.result
        IN  /\ (t # <<>> /\ i # <<>>) =>
                   r.n * 10 * Len(t) * Len(i) = r.d * (6 * Total(t) * Len(i) + 4 * Total(i) * Len(t))
            /\ (t # <<>> /\ i = <<>>) => r.n * Len(t) = r.d * Total(t)
            /\ (t = <<>> /\ i # <<>>) => r.n * Len(i) = r.d * Total(i)
            /\ (t = <<>> /\ i = <<>>) => r.n = 0
    /\ (req.endpoint = "/infer/page" /\ req.chunks = <<>> /\ req.images = <<>> /\ Loaded) =>
        /\ Served
        /\ resp.score.n = 0
        /\ resp.details.overall_tier = "low"

\* 0.6 * 1.0 + 0.4 * mean(0.0, 0.6) = 0.72
C3_Witness ==
    /\ call.fn = "summarize_overall"
    /\ call.text_scores = <<Rat(100, 1)>>
    /\ call.image_scores = <<Rat(0, 1), Rat(60, 1)>>
    /\ call.result = Rat(72, 1)

-----------------------------------------------------------------------------

\* The per-item results of a successful response, by kind.
ImageResults ==
    CASE req.endpoint = "/infer/image" ->
            <<[score |-> resp.score, tier |-> resp.details.tier,
               explanation |-> resp.details.explanation]>>
      [] req.endpoint = "/infer/image/batch" -> resp.details.results
      [] req.endpoint = "/infer/page" -> resp.details.images.results
      [] OTHER -> <<>>

TextResults ==
    CASE req.endpoint = "/infer/text" ->
            <<[score |-> resp.score, tier |-> resp.details.tier,
               explanation |-> resp.details.explanation]>>
      [] req.endpoint = "/infer/text/spans" -> resp.details.results
      [] req.endpoint = "/infer/page" -> resp.details.text.results
      [] OTHER -> <<>>

ExpectedScore(prob) == IF prob < 0 THEN 0 ELSE IF prob > 100 THEN 100 ELSE prob

ExpectedTier(prob) ==
    IF ExpectedScore(prob) >= 80 THEN "high"
    ELSE IF ExpectedScore(prob) >= 60 THEN "medium" ELSE "low"

Canned(kind, tier) ==
    CASE kind = "text" /\ tier = "medium" -> "Moderate AI-like writing signal detected."
      [] kind = "text" /\ tier = "high" ->
            "Strong AI-like writing signal detected due to highly uniform or templated phrasing."
      [] kind = "image" /\ tier = "medium" -> "Moderate synthetic-image signal detected."
      [] kind = "image" /\ tier = "high" ->
            "Strong synthetic-image signal detected based on the classifier's visual pattern match."

RemoteFails(reply) == explainer = None \/ reply \in {"api_error", "null_content"}

ItemKeepsScore(item, result) ==
    /\ result.score.n = ExpectedScore(item.prob) * result.score.d
    /\ result.tier = ExpectedTier(item.prob)

CannedOnFailure(kind, items, results) ==
    \A i \in 1..Len(results) :
        /\ ItemKeepsScore(items[i], results[i])
        /\ (Flagged(results[i].tier) /\ RemoteFails(items[i].reply)) =>
               results[i].explanation = Canned(kind, results[i].tier)

\* C4: for a medium / high item, a failing remote explanation call (it raises,
\* or the reply has no message content) or a missing explainer leaves the
\* request successful with the canned sentence of (kind, tier) as explanation;
\* the failure changes neither score nor tier, and no request is aborted by
\* the explainer: a request that is aborted ends at a detector call.
C4_ExplanationFallback ==
    /\ Served =>
        /\ CannedOnFailure("image", req.images, ImageResults)
        /\ CannedOnFailure("text", req.chunks, TextResults)
    /\ resp.status = 500 => (trace # <<>> /\ trace[Len(trace)].op = "predict")
    /\ (call.fn = "maybe_explain" /\ Flagged(call.tier) /\ RemoteFails(call.reply)) =>
           call.result = Canned(call.kind, call.tier)

\* Both kinds of remote failure in one successful batch.
C4_Witness ==
    /\ Served
    /\ explainer # None
    /\ req.endpoint = "/infer/image/batch"
    /\ Len(req.images) = 2
    /\ req.images[1].reply = "null_content" /\ resp.details.results[1].explanation = ImageHigh
    /\ req.images[2].reply = "api_error" /\ resp.details.results[2].explanation = ImageMedium

ItemOf(e) == IF e.kind = "text" THEN req.chunks[e.idx] ELSE req.images[e.idx]

\* C5: the remote explainer is called for an item only after that item's
\* detector call, only if the item's tier is medium or high, and at most once;
\* a low item causes no remote call and its explanation is null.
C5_ExplainAfterScoreOnlyFlagged ==
    /\ \A k \in 1..Len(trace) :
        trace[k].op = "explain" =>
            /\ explainer # None
            /\ \E j \in 1..(k - 1) :
                trace[j] = [op |-> "predict", kind |-> trace[k].kind, idx |-> trace[k].idx]
            /\ ExpectedTier(ItemOf(trace[k]).prob) \in {"medium", "high"}
            /\ \A j \in 1..Len(trace) : trace[j] = trace[k] => j = k
    /\ Served =>
        /\ \A i \in 1..Len(ImageResults) :
               ImageResults[i].tier = "low" => ImageResults[i].explanation = None
        /\ \A i \in 1..Len(TextResults) :
               TextResults[i].tier = "low" => TextResults[i].explanation = None
    /\ call.fn = "maybe_explain" =>
        /\ call.called => (Flagged(call.tier) /\ explainer # None)
        /\ call.tier = "low" => call.result = None

\* A flagged item explained right after its score, and a low item left alone.
C5_Witness ==
    /\ Served
    /\ req.endpoint = "/infer/image/batch"
    /\ trace = <<Ev("predict", "image", 1), Ev("explain", "image", 1), Ev("predict", "image", 2)>>
    /\ resp.details.results[2].tier = "low"
    /\ resp.details.results[2].explanation = None

UndecodableScored ==
    \E i \in 1..Len(req.images) :
        req.images[i].image = "undecodable" /\ Ev("predict", "image", i) \in {trace[k] : k \in 1..Len(trace)}

\* C6 as claimed: when a detector's predict raises (an undecodable image), the
\* endpoint still returns a DetectionResponse.
C6_Claimed_DetectorFailureStillAnswers ==
    UndecodableScored => Served

\* C6 as amended: only a failing remote explanation call falls back to a
\* static string; a detector's predict that raises is not caught, the request
\* ends there with a server error and no DetectionResponse is returned.
C6_DetectorFailureAbortsRequest ==
    /\ UndecodableScored =>
        /\ resp.status = 500
        /\ trace[Len(trace)].op = "predict"
        /\ req.images[trace[Len(trace)].idx].image = "undecodable"
    /\ (/\ req.endpoint \in {"/infer/image", "/infer/image/batch"}
        /\ image_detector # None
        /\ req.images # <<>>
        /\ \A i \in 1..Len(req.images) : req.images[i].image = "decodable") => Served

\* The second image cannot be decoded, after the first one was explained.
C6_Witness ==
    /\ resp.status = 500
    /\ req.endpoint = "/infer/image/batch"
    /\ Len(req.images) = 2
    /\ req.images[2].image = "undecodable"
    /\ trace = <<Ev("predict", "image", 1), Ev("explain", "image", 1), Ev("predict", "image", 2)>>

\* C7: once startup has loaded the text detector, /infer/text answers 200 with
\* the score clamp_score(TextDetector.predict(text)), predict returning a float.
C7_TextScoreIsClampedPredict ==
    (req.endpoint = "/infer/text" /\ phase = "ready" /\ text_detector # None) =>
        /\ Served
        /\ resp.score.n = ExpectedScore(req.chunks[1].prob) * resp.score.d

\* C8: with no image model configured /infer/image reports the neutral score
\* 0.5 and tier "low", and startup always ends with both detectors set.
C8_NeutralImageAndStartupCompletes ==
    /\ (/\ environ.IMAGE_MODEL_NAME = ""
        /\ req.endpoint = "/infer/image"
        /\ image_detector # None) =>
            /\ Served
            /\ resp.score = Rat(50, 1)
            /\ resp.details.tier = "low"
    /\ phase # "init" => Loaded

\* C10: a handler whose detector is None answers 503 without any detector or
\* explainer call; /infer/page answers 503 unless both detectors are loaded;
\* an empty /infer/text/spans or /infer/image/batch answers 400, after the 503
\* check and without a detector call; once startup has completed both
\* detectors stay loaded and nothing answers 503.
C10_ValidationOrder ==
    /\ resp.status \in {503, 400} => trace = <<>>
    /\ req.endpoint \in {"/infer/text", "/infer/text/spans"} =>
           (resp.status = 503 <=> text_detector = None)
    /\ req.endpoint \in {"/infer/image", "/infer/image/batch"} =>
           (resp.status = 503 <=> image_detector = None)
    /\ req.endpoint = "/infer/page" => (resp.status = 503 <=> ~Loaded)
    /\ req.endpoint = "/infer/text/spans" =>
           (resp.status = 400 <=> (text_detector # None /\ req.chunks = <<>>))
    /\ req.endpoint = "/infer/image/batch" =>
           (resp.status = 400 <=> (image_detector # None /\ req.images = <<>>))
    /\ req.endpoint \in {"/infer/text", "/infer/image", "/infer/page"} => resp.status # 400
    /\ phase = "ready" => (Loaded /\ resp.status # 503)

\* Only chunks, the text detector loaded, the image detector missing: 503.
C10_Witness ==
    /\ req.endpoint = "/infer/page"
    /\ req.chunks # <<>> /\ req.images = <<>>
    /\ text_detector # None /\ image_detector = None
    /\ resp.status = 503
    /\ trace = <<>>

\* The claim's reading of a label, on the label as the checkpoint spells it.
LowerCased(label) == [i \in 1..Len(label) |-> Lower(label[i])]
HasPositive(label, detector) ==
    \/ Contains(LowerCased(label), <<"a", "i">>)
    \/ Contains(LowerCased(label), <<"f", "a", "k", "e">>)
    \/ Contains(LowerCased(label), <<"g", "e", "n", "e", "r", "a", "t", "e", "d">>)
    \/ Contains(LowerCased(label), <<"s", "y", "n", "t", "h", "e", "t", "i", "c">>)
    \/ (detector = "text" /\ Contains(LowerCased(label), <<"m", "a", "c", "h", "i", "n", "e">>))
    \/ (detector = "image"
        /\ Contains(LowerCased(label), <<"a", "r", "t", "i", "f", "i", "c", "i", "a", "l">>))
HasReal(label) ==
    \/ Contains(LowerCased(label), <<"r", "e", "a", "l">>)
    \/ Contains(LowerCased(label), <<"h", "u", "m", "a", "n">>)
    \/ Contains(LowerCased(label), <<"n", "a", "t", "u", "r", "a", "l">>)
    \/ Contains(LowerCased(label), <<"a", "u", "t", "h", "e", "n", "t", "i", "c">>)
    \/ Contains(LowerCased(label), <<"o", "r", "g", "a", "n", "i", "c">>)

\* C9: _find_ai_label_index returns the fallback index 1 for an empty
\* id2label; else the key of the first label, in mapping order, holding a
\* positive term; else, for two labels of which one holds a 'real'-type term,
\* the key of the other label; else 1. The result is a key or the fallback.
C9_FindAiLabelIndex ==
    call.fn = "_find_ai_label_index" =>
        LET m == call.id2label
            pos == {i \in 1..Len(m) : HasPositive(m[i].v, call.detector)}
            real == {i \in 1..Len(m) : HasReal(m[i].v)}
        IN  /\ m = <<>> => call.result = 1
            /\ pos # {} =>
                   \E i \in pos : (\A j \in pos : i <= j) /\ call.result = m[i].k
            /\ (pos = {} /\ Len(m) = 2 /\ real # {}) =>
                   \E i \in real : (\A j \in real : i <= j) /\ call.result = m[3 - i].k
            /\ (m # <<>> /\ pos = {} /\ ~(Len(m) = 2 /\ real # {})) => call.result = 1
            /\ call.result \in {m[i].k : i \in 1..Len(m)} \cup {1}

\* {1: "Real", 0: "LABEL_0"}: no positive label, so the label that is not "Real".
C9_Witness ==
    /\ call.fn = "_find_ai_label_index"
    /\ call.id2label = <<[k |-> 1, v |-> <<"R", "e", "a", "l">>],
                         [k |-> 0, v |-> <<"L", "A", "B", "E", "L", "_", "0">>]>>
    /\ call.result = 0

-----------------------------------------------------------------------------

\* One entry per item, in order, with the item's id and the item's own score and tier.
EntriesMatchItems(items, results) ==
    /\ Len(results) = Len(items)
    /\ \A i \in 1..Len(items) :
        /\ results[i].id = items[i].id
        /\ ItemKeepsScore(items[i], results[i])

NumFlagged(results) == Cardinality({i \in 1..Len(results) : results[i].tier \in {"medium", "high"}})
NumExplained(results) == Cardinality({i \in 1..Len(results) : results[i].explanation # None})

Batched == req.endpoint \in {"/infer/text/spans", "/infer/image/batch"}

ResultsInOrder ==
    /\ (Served /\ req.endpoint \in {"/infer/text/spans", "/infer/page"}) =>
        /\ EntriesMatchItems(req.chunks, TextResults)
        /\ NumFlagged(TextResults) = NumExplained(TextResults)
    /\ (Served /\ req.endpoint \in {"/infer/image/batch", "/infer/page"}) =>
        /\ EntriesMatchItems(req.images, ImageResults)
        /\ NumFlagged(ImageResults) = NumExplained(ImageResults)

\* C11 as claimed: a successful /infer/text/spans, /infer/image/batch or
\* /infer/page response lists one entry per item, in order, with the item's id,
\* score and tier, and its flagged_count is the number of medium / high
\* entries, which is the number of entries with an explanation.
C11_Claimed_FlaggedCountEverywhere ==
    /\ ResultsInOrder
    /\ (Served /\ (Batched \/ req.endpoint = "/infer/page")) =>
        /\ "flagged_count" \in DOMAIN resp.details
        /\ resp.details.flagged_count =
               NumFlagged(IF req.endpoint = "/infer/text/spans" THEN TextResults
                          ELSE ImageResults)

\* C11 as amended: the same, with flagged_count carried by the
\* /infer/text/spans and /infer/image/batch responses only; the /infer/page
\* response has its two results lists and no flagged_count.
C11_ResultsAndFlaggedCount ==
    /\ ResultsInOrder
    /\ (Served /\ Batched) =>
        /\ "flagged_count" \in DOMAIN resp.details
        /\ resp.details.flagged_count =
               NumFlagged(IF req.endpoint = "/infer/text/spans" THEN TextResults
                          ELSE ImageResults)
    /\ (Served /\ req.endpoint = "/infer/page") =>
           DOMAIN resp.details = {"text", "images", "overall_tier"}

\* Two images under the same id, the first medium and the second low.
C11_Witness ==
    /\ Served
    /\ req.endpoint = "/infer/image/batch"
    /\ Len(req.images) = 2
    /\ req.images[1].id = req.images[2].id
    /\ req.images[1].prob = 60 /\ req.images[2].prob = 30
    /\ resp.details.results[1].tier = "medium" /\ resp.details.results[2].tier = "low"
    /\ resp.details.flagged_count = 1

-----------------------------------------------------------------------------

RatTier(x) ==
    IF x.n >= 80 * x.d THEN "high" ELSE IF x.n >= 60 * x.d THEN "medium" ELSE "low"

\* The aggregate tier is at most the highest of the items' tiers.
TierBounded(overall, tiers) ==
    /\ overall = "high" => "high" \in tiers
    /\ overall = "medium" => (tiers \cap {"medium", "high"}) # {}
    /\ tiers \subseteq {"low"} => overall = "low"

TiersOf(results) == {results[i].tier : i \in 1..Len(results)}
ScoreTiers(scores) == {RatTier(scores[i]) : i \in 1..Len(scores)}

\* C12: the aggregate tier never exceeds the highest per-item tier: an overall
\* tier "high" needs a "high" item, "medium" needs a medium or high item, and
\* items that are all "low" give "low" - for the /infer/page response and for
\* summarize_overall on any lists of clamped scores.
C12_OverallTierBounded ==
    /\ (Served /\ req.endpoint = "/infer/page") =>
        /\ TierBounded(resp.details.overall_tier, TiersOf(TextResults) \cup TiersOf(ImageResults))
        /\ resp.details.overall_tier = RatTier(resp.score)
    /\ call.fn = "summarize_overall" =>
        TierBounded(RatTier(call.result),
                    ScoreTiers(call.text_scores) \cup ScoreTiers(call.image_scores))

\* The converse fails: a flagged item on a page whose overall tier is "low".
C12_Witness ==
    /\ Served
    /\ req.endpoint = "/infer/page"
    /\ resp.details.overall_tier = "low"
    /\ \E i \in 1..Len(ImageResults) : ImageResults[i].tier \in {"medium", "high"}

-----------------------------------------------------------------------------

Explains == {k \in 1..Len(trace) : trace[k].op = "explain"}

\* C13: every chunk is scored before the first text explanation is requested,
\* so a request that ends at a failing chunk has made no remote call; an image
\* is explained right after its own score, before the next image is scored, so
\* a request can end at a failing image after remote calls for earlier images;
\* in /infer/page nothing is done for an image before the text part is over.
C13_TwoPhaseTextInterleavedImages ==
    /\ \A k \in Explains :
        trace[k].kind = "text" =>
            \A i \in 1..Len(req.chunks) :
                \E j \in 1..(k - 1) : trace[j] = Ev("predict", "text", i)
    /\ (resp.status = 500 /\ trace[Len(trace)].kind = "text") => Explains = {}
    /\ \A k \in Explains :
        trace[k].kind = "image" =>
            (k > 1 /\ trace[k - 1] = Ev("predict", "image", trace[k].idx))
    /\ \A j, k \in 1..Len(trace) :
        (j < k /\ trace[j].kind = "image") => trace[k].kind = "image"

\* A page whose second image cannot be decoded, after the first was explained.
C13_Witness ==
    /\ resp.status = 500
    /\ req.endpoint = "/infer/page"
    /\ Len(req.images) = 2
    /\ req.images[2].image = "undecodable"
    /\ trace = <<Ev("predict", "image", 1), Ev("explain", "image", 1), Ev("predict", "image", 2)>>

====
